---- MODULE Spec2Model ----
(***************************************************************************)
(* A model of the MXNet easyblock (easybuild/easyblocks/m/mxnet.py):      *)
(* the steps EB_MXNet adds to MakeCp, each as one action over the build   *)
(* directory, the build options and the calls made to the two extension   *)
(* installers.                                                             *)
(*                                                                         *)
(* Three specifications, one per group of steps:                           *)
(*   SpecExtract    extract_step (the source tree assembly)                *)
(*   SpecConfigure  configure_step (the build option derivation)           *)
(*   SpecBindings   extensions_step followed by sanity_check_step          *)
(***************************************************************************)
EXTENDS Integers, Sequences, FiniteSets, TLC

VARIABLES
    pc,             \* the step the build is at, and how the last one ended
    err,            \* the exception that ended the failed step, or None
    builddir,       \* self.builddir: child name -> directory
    thirdparty,     \* <mxnet_src_dir>/3rdparty: whether it exists, its children
    mxnet_src_dir,  \* self.mxnet_src_dir
    todo,           \* the entries of os.listdir(builddir) still to be processed
    builddir0,      \* builddir as super().extract_step() left it
    thirdparty0,    \* 3rdparty as super().extract_step() left it
    toolchain_def,  \* self.toolchain.definition().get('BLAS', None)
    imkl_version,   \* get_software_version('imkl')
    environ,        \* os.environ: variable -> value, or None when unset
    nnpack_root,    \* get_software_root('NNPACK')
    buildopts,      \* self.cfg['buildopts'], one element per cfg.update
    buildopts0,     \* buildopts as the easyconfig set it
    parent_configure, \* the buildopts each super().configure_step() call saw
    install_r_ext,  \* self.cfg['install_r_ext']
    installed,      \* the files present under self.installdir
    shared_lib_ext, \* get_shared_lib_ext()
    fake_module_ok, \* whether load_fake_module() succeeds
    py_sanity,      \* what self.py_ext.sanity_check_step() returns
    r_sanity,       \* what self.r_ext.sanity_check_step() returns
    calls           \* the calls made to collaborators, in order

vars == <<pc, err, builddir, thirdparty, mxnet_src_dir, todo, builddir0,
          thirdparty0, toolchain_def, imkl_version, environ, nnpack_root,
          buildopts, buildopts0, parent_configure, install_r_ext, installed,
          shared_lib_ext, fake_module_ok, py_sanity, r_sanity, calls>>

extractVars == <<builddir, thirdparty, mxnet_src_dir, todo, builddir0, thirdparty0>>
configureVars == <<toolchain_def, imkl_version, environ, nnpack_root,
                   buildopts, buildopts0, parent_configure>>
bindingVars == <<install_r_ext, installed, shared_lib_ext, fake_module_ok,
                 py_sanity, r_sanity, calls>>

\* Python's None
None == "<None>"

---------------------------------------------------------------------------
(* Bounds *)

\* the most children the build directory holds after extraction
MaxChildren == 3

---------------------------------------------------------------------------
(* Maps with string keys *)

EmptyMap == [k \in {} |-> None]

Put(f, k, v) == [x \in DOMAIN f \cup {k} |-> IF x = k THEN v ELSE f[x]]

Drop(f, k) == [x \in DOMAIN f \ {k} |-> f[x]]

---------------------------------------------------------------------------
(* String functions of the Python standard library, as extract_step uses them *)

\* the positions at which `sub` occurs in s
Occurrences(s, sub) ==
    {i \in 1..(Len(s) - Len(sub) + 1) : SubSeq(s, i, i + Len(sub) - 1) = sub}

\* s.rpartition('-')[0]: what precedes the last hyphen, '' when there is none
RpartitionHead(s) ==
    LET Hy == Occurrences(s, "-") IN
    IF Hy = {} THEN ""
    ELSE LET i == CHOOSE i \in Hy : \A j \in Hy : j <= i IN SubSeq(s, 1, i - 1)

\* s.replace(old, new): every non-overlapping occurrence, left to right
RECURSIVE Replace(_, _, _)
Replace(s, old, new) ==
    LET Occ == Occurrences(s, old) IN
    IF Occ = {} THEN s
    ELSE LET i == CHOOSE i \in Occ : \A j \in Occ : i <= j IN
         SubSeq(s, 1, i - 1) \o new
           \o Replace(SubSeq(s, i + Len(old), Len(s)), old, new)

\* glob.glob(os.path.join(builddir, '*mxnet-*')) on one child name: the name
\* holds 'mxnet-', and does not start with a dot (glob hides dot files)
GlobMxnet(name) ==
    /\ Occurrences(name, "mxnet-") # {}
    /\ ~(Len(name) > 0 /\ SubSeq(name, 1, 1) = ".")

---------------------------------------------------------------------------
(* The build directory *)

\* the names super().extract_step() may have unpacked into the build directory
SourceNames ==
    {"mxnet-1.9.1", "apache-mxnet-1.9", "oneDNN-2.6", "mkldnn-2.6",
     "ps-lite-a1b2", "ps-lite-34fa", "dlpack"}

\* the empty submodule directories the MXNet sources may ship under 3rdparty
PlaceholderNames == {"mkldnn", "ps-lite"}

Upstream == "<upstream>"
Created == "<created>"

\* a directory: where its content comes from, and whether it is empty
Dir(origin, empty) == [origin |-> origin, empty |-> empty]

NoThirdparty == [exists |-> FALSE, origin |-> None, kids |-> EmptyMap]

\* remove_dir(os.path.join(mxnet_src_dir, '3rdparty', submodule)): the directory
\* goes with all it holds; with an empty submodule name the path is 3rdparty itself
RemoveDir(tp, submodule) ==
    IF ~tp.exists THEN tp
    ELSE IF submodule = "" THEN NoThirdparty
    ELSE [tp EXCEPT !.kids = Drop(tp.kids, submodule)]

\* shutil.move(olddir, newdir) of directory d, newdir absent: a rename, or, when
\* 3rdparty is missing, copytree (which makes the parents) and rmtree
Move(tp, submodule, d) ==
    IF submodule = "" THEN [exists |-> TRUE, origin |-> d.origin, kids |-> EmptyMap]
    ELSE IF tp.exists THEN [tp EXCEPT !.kids = Put(tp.kids, submodule, d)]
    ELSE [exists |-> TRUE, origin |-> Created, kids |-> Put(EmptyMap, submodule, d)]

\* os.rename(old, new) of a directory succeeds when old exists and new is
\* absent or an empty directory (which it replaces)
RenameSucceeds(bd, old, new) ==
    /\ old \in DOMAIN bd
    /\ (new \in DOMAIN bd /\ new # old) => bd[new].empty

Rename(bd, old, new) == Put(Drop(bd, old), new, bd[old])

---------------------------------------------------------------------------
(* extract_step *)

\* variant: any match will do
DiscoveryAtLeastOne(mxnet_dirs) == Cardinality(mxnet_dirs) >= 1

\* len(mxnet_dirs) == 1
Discovery(mxnet_dirs) == Cardinality(mxnet_dirs) = 1

FindError == "EasyBuildError: Failed to find/isolate MXNet source directory"
MoveError == "EasyBuildError: Failed to move"
RenameError == "OSError"

InitExtractInputs ==
    /\ \E children \in SUBSET SourceNames :
         /\ Cardinality(children) <= MaxChildren
         /\ \E empties \in SUBSET {n \in children : ~GlobMxnet(n)} :
              builddir = [n \in children |-> Dir(n, n \in empties)]
    /\ \/ thirdparty = NoThirdparty
       \/ \E P \in SUBSET PlaceholderNames :
            thirdparty = [exists |-> TRUE, origin |-> Upstream,
                          kids |-> [k \in P |-> Dir(Upstream, TRUE)]]

\* lines 95-100, and the listing of line 102
ExtractBegin ==
    /\ pc = "extract"
    /\ LET mxnet_dirs == {n \in DOMAIN builddir : GlobMxnet(n)} IN
       IF Discovery(mxnet_dirs)
       THEN \E m \in mxnet_dirs :
              /\ mxnet_src_dir' = m
              /\ todo' = DOMAIN builddir \ {m}
              /\ pc' = IF todo' = {} THEN "extract_done" ELSE "extract_loop"
              /\ err' = err
       ELSE /\ pc' = "extract_failed"
            /\ err' = FindError
            /\ UNCHANGED <<mxnet_src_dir, todo>>
    /\ UNCHANGED <<builddir, thirdparty, builddir0, thirdparty0>>
    /\ UNCHANGED <<configureVars, bindingVars>>

\* one pass of the loop of lines 102-122, for the entry s of the listing
ExtractIter(s) ==
    /\ pc = "extract_loop"
    /\ s \in todo
    /\ LET head == RpartitionHead(s)
           isOneDNN == head = "oneDNN"
           submodule == IF isOneDNN THEN "mkldnn" ELSE head
           srcdir == IF isOneDNN THEN Replace(s, "oneDNN", "mkldnn") ELSE s
       IN
       IF isOneDNN /\ ~RenameSucceeds(builddir, s, srcdir)
       THEN /\ pc' = "extract_failed"
            /\ err' = RenameError
            /\ UNCHANGED <<builddir, thirdparty, todo>>
       ELSE LET bd == IF isOneDNN THEN Rename(builddir, s, srcdir) ELSE builddir
                tp == RemoveDir(thirdparty, submodule)
            IN
            IF srcdir \notin DOMAIN bd
            THEN /\ pc' = "extract_failed"
                 /\ err' = MoveError
                 /\ builddir' = bd
                 /\ thirdparty' = tp
                 /\ todo' = todo
            ELSE /\ thirdparty' = Move(tp, submodule, bd[srcdir])
                 /\ builddir' = Drop(bd, srcdir)
                 /\ todo' = todo \ {s}
                 /\ pc' = IF todo' = {} THEN "extract_done" ELSE "extract_loop"
                 /\ err' = err
    /\ UNCHANGED <<mxnet_src_dir, builddir0, thirdparty0>>
    /\ UNCHANGED <<configureVars, bindingVars>>

ExtractLoop == \E s \in SourceNames : ExtractIter(s)

---------------------------------------------------------------------------
(* configure_step *)

\* '%s' % value
PyStr(value) == IF value = None THEN "None" ELSE value

\* '%s="%s"' % (var, value)
Opt(var, value) == var \o "=\"" \o PyStr(value) \o "\""

\* self.cfg.update('buildopts', value)
Update(opts, value) == Append(opts, value)

DigitValue ==
    [c \in {"0", "1", "2", "3", "4", "5", "6", "7", "8", "9"} |->
        CASE c = "0" -> 0 [] c = "1" -> 1 [] c = "2" -> 2 [] c = "3" -> 3
          [] c = "4" -> 4 [] c = "5" -> 5 [] c = "6" -> 6 [] c = "7" -> 7
          [] c = "8" -> 8 [] c = "9" -> 9]

\* int(s) of a string of digits
RECURSIVE ParseInt(_)
ParseInt(s) ==
    IF s = "" THEN 0
    ELSE 10 * ParseInt(SubSeq(s, 1, Len(s) - 1)) + DigitValue[SubSeq(s, Len(s), Len(s))]

\* LooseVersion(vstring).version of a dotted string of numbers: its components
RECURSIVE LooseVersion(_)
LooseVersion(vstring) ==
    LET Dots == Occurrences(vstring, ".") IN
    IF Dots = {} THEN <<ParseInt(vstring)>>
    ELSE LET i == CHOOSE i \in Dots : \A j \in Dots : i <= j IN
         <<ParseInt(SubSeq(vstring, 1, i - 1))>>
           \o LooseVersion(SubSeq(vstring, i + 1, Len(vstring)))

\* a > b for two lists of numbers, as Python compares lists
RECURSIVE ListGreaterThan(_, _)
ListGreaterThan(a, b) ==
    IF a = <<>> THEN FALSE
    ELSE IF b = <<>> THEN TRUE
    ELSE IF a[1] # b[1] THEN a[1] > b[1]
    ELSE ListGreaterThan(Tail(a), Tail(b))

\* a >= b for two lists of numbers
RECURSIVE ListAtLeast(_, _)
ListAtLeast(a, b) ==
    IF b = <<>> THEN TRUE
    ELSE IF a = <<>> THEN FALSE
    ELSE IF a[1] # b[1] THEN a[1] > b[1]
    ELSE ListAtLeast(Tail(a), Tail(b))

\* variant: LooseVersion(imkl_version) > LooseVersion('17')
IsMkl2017Strict(version) == ListGreaterThan(LooseVersion(version), LooseVersion("17"))

\* LooseVersion(imkl_version) >= LooseVersion('17')
IsMkl2017(version) == ListAtLeast(LooseVersion(version), LooseVersion("17"))

\* a value of definition().get('BLAS', None): None, or a list of module names
NoneDef == [is_none |-> TRUE, items |-> <<>>]

ListDef(items) == [is_none |-> FALSE, items |-> items]

SubscriptNoneError == "TypeError: 'NoneType' object is not subscriptable"
NoBlasError == "EasyBuildError: No BLAS library found in the toolchain"
UnboundBlasError == "UnboundLocalError: local variable 'blas' referenced before assignment"

\* the outcome of a step: the build options it leaves, the exception that
\* ended it (None when it completed)
Outcome(opts, error) == [buildopts |-> opts, err |-> error]

\* lines 131-132
BaseOpts(opts, env) ==
    Update(Update(Update(Update(opts,
        Opt("CC", env["CC"])),
        Opt("CXX", env["CXX"])),
        Opt("ADD_CFLAGS", env["CFLAGS"])),
        Opt("ADD_LDFLAGS", env["LDFLAGS"]))

\* lines 150-153, with `blas` bound
BlasOpts(opts, blas, nnpack) ==
    LET withBlas == Update(opts, Opt("USE_BLAS", blas)) IN
    IF nnpack # None /\ nnpack # ""
    THEN Outcome(Update(withBlas, "USE_NNPACK=1"), None)
    ELSE Outcome(withBlas, None)

\* lines 131-153: configure_step up to the call of the parent's configure_step
ConfigureRun(opts, blasdef, version, env, nnpack) ==
    LET base == BaseOpts(opts, env) IN
    IF blasdef.is_none THEN Outcome(base, SubscriptNoneError)
    ELSE LET toolchain_blas == blasdef.items[1] IN
         IF toolchain_blas = "imkl"
         THEN LET mkl2017 == IF IsMkl2017(version)
                             THEN Update(base, "USE_MKL2017=1") ELSE base
              IN BlasOpts(Update(mkl2017, Opt("MKLML_ROOT", env["MKLROOT"])),
                          "mkl", nnpack)
         ELSE IF toolchain_blas \in {"ACML", "ATLAS"} THEN BlasOpts(base, "atlas", nnpack)
         ELSE IF toolchain_blas = "OpenBLAS" THEN BlasOpts(base, "openblas", nnpack)
         ELSE IF toolchain_blas = "FlexiBLAS" THEN BlasOpts(base, "flexiblas", nnpack)
         ELSE IF toolchain_blas = None THEN Outcome(base, NoBlasError)
         ELSE Outcome(base, UnboundBlasError)

\* configure_step, lines 129-155
ConfigureStep ==
    /\ pc = "configure"
    /\ LET run == ConfigureRun(buildopts, toolchain_def, imkl_version, environ,
                               nnpack_root)
       IN /\ buildopts' = run.buildopts
          /\ err' = run.err
          /\ IF run.err = None
             THEN /\ pc' = "configure_done"
                  /\ parent_configure' = Append(parent_configure, run.buildopts)
             ELSE /\ pc' = "configure_failed"
                  /\ parent_configure' = parent_configure
    /\ UNCHANGED <<toolchain_def, imkl_version, environ, nnpack_root, buildopts0>>
    /\ UNCHANGED <<extractVars, bindingVars>>

---------------------------------------------------------------------------
(* extensions_step and install_r_ext *)

\* lines 165-170: the Python bindings
PyCalls ==
    <<"change_dir(python)", "py_ext.prerun", "py_ext.run", "py_ext.postrun">>

\* variant: the export after the second install
RCallsExportLast ==
    <<"change_dir(R-package)", "mkdir(inst)", "symlink(inst/libs)",
      "symlink(inst/include)", "write_file(NAMESPACE)",
      "change_dir(mxnet_src_dir)", "r_ext.prerun", "r_ext.run",
      "change_dir(R-package)", "r_ext.run", "run_cmd(Rscript mxnet.export)",
      "r_ext.postrun">>

\* install_r_ext, lines 181-200: the R bindings
RCalls ==
    <<"change_dir(R-package)", "mkdir(inst)", "symlink(inst/libs)",
      "symlink(inst/include)", "write_file(NAMESPACE)",
      "change_dir(mxnet_src_dir)", "r_ext.prerun", "r_ext.run",
      "run_cmd(Rscript mxnet.export)", "change_dir(R-package)", "r_ext.run",
      "r_ext.postrun">>

\* variant: install_r_ext not consulted
ExtensionsCallsAlwaysR(install_r) == PyCalls \o RCalls

\* the calls extensions_step makes when none of them raises (lines 165-177)
ExtensionsCalls(install_r) ==
    IF install_r THEN PyCalls \o RCalls ELSE PyCalls

\* extensions_step, lines 162-177: the calls in order, up to the first that
\* raises; any of them may
ExtensionsStep ==
    /\ pc = "extensions"
    /\ LET all == ExtensionsCalls(install_r_ext) IN
       \E n \in 1..Len(all) :
         /\ calls' = calls \o SubSeq(all, 1, n)
         /\ \/ /\ n = Len(all)
               /\ pc' = "sanity"
               /\ err' = err
            \/ /\ pc' = "extensions_failed"
               /\ err' = "EasyBuildError: " \o all[n]
    /\ UNCHANGED <<install_r_ext, installed, shared_lib_ext, fake_module_ok,
                   py_sanity, r_sanity>>
    /\ UNCHANGED <<extractVars, configureVars>>

---------------------------------------------------------------------------
(* sanity_check_step *)

\* lines 204-207: custom_paths['files']
CustomFiles(ext) == {"lib/libmxnet.a", "lib/libmxnet." \o ext}

\* the parent's sanity_check_step(custom_paths): every file listed is there
ParentSanityCheck(files, present) == files \subseteq present

SanityFilesError == "EasyBuildError: Sanity check failed"
FakeModuleError == "EasyBuildError: Loading fake module failed"
PySanityError == "EasyBuildError: The sanity check for the Python bindings failed"
RSanityError == "EasyBuildError: The sanity check for the R bindings failed"

Ran(made, error) == [calls |-> made, err |-> error]

\* variant: the R binding's answer not consulted
SanityRunIgnoringR(present, ext, fake_ok, py_ok, r_ok) ==
    IF ~ParentSanityCheck(CustomFiles(ext), present)
    THEN Ran(<<"super.sanity_check_step">>, SanityFilesError)
    ELSE IF ~fake_ok
    THEN Ran(<<"super.sanity_check_step", "load_fake_module">>, FakeModuleError)
    ELSE IF ~py_ok
    THEN Ran(<<"super.sanity_check_step", "load_fake_module",
               "py_ext.sanity_check_step">>, PySanityError)
    ELSE Ran(<<"super.sanity_check_step", "load_fake_module",
               "py_ext.sanity_check_step", "r_ext.options[modulename]",
               "r_ext.sanity_check_step", "clean_up_fake_module">>, None)

\* lines 204-223: the calls made, and the exception that ends the step
SanityRun(present, ext, fake_ok, py_ok, r_ok) ==
    IF ~ParentSanityCheck(CustomFiles(ext), present)
    THEN Ran(<<"super.sanity_check_step">>, SanityFilesError)
    ELSE IF ~fake_ok
    THEN Ran(<<"super.sanity_check_step", "load_fake_module">>, FakeModuleError)
    ELSE IF ~py_ok
    THEN Ran(<<"super.sanity_check_step", "load_fake_module",
               "py_ext.sanity_check_step">>, PySanityError)
    ELSE IF ~r_ok
    THEN Ran(<<"super.sanity_check_step", "load_fake_module",
               "py_ext.sanity_check_step", "r_ext.options[modulename]",
               "r_ext.sanity_check_step">>, RSanityError)
    ELSE Ran(<<"super.sanity_check_step", "load_fake_module",
               "py_ext.sanity_check_step", "r_ext.options[modulename]",
               "r_ext.sanity_check_step", "clean_up_fake_module">>, None)

\* sanity_check_step, lines 202-223
SanityCheckStep ==
    /\ pc = "sanity"
    /\ LET run == SanityRun(installed, shared_lib_ext, fake_module_ok,
                            py_sanity, r_sanity)
       IN /\ calls' = calls \o run.calls
          /\ err' = run.err
          /\ pc' = IF run.err = None THEN "sanity_done" ELSE "sanity_failed"
    /\ UNCHANGED <<install_r_ext, installed, shared_lib_ext, fake_module_ok,
                   py_sanity, r_sanity>>
    /\ UNCHANGED <<extractVars, configureVars>>

---------------------------------------------------------------------------
(* The state __init__ leaves (lines 77-85), for the steps a specification *)
(* does not run                                                            *)

ExtractIdle ==
    /\ builddir = EmptyMap
    /\ thirdparty = NoThirdparty
    /\ todo = {}
    /\ builddir0 = EmptyMap
    /\ thirdparty0 = NoThirdparty

ConfigureIdle ==
    /\ toolchain_def = NoneDef
    /\ imkl_version = None
    /\ environ = EmptyMap
    /\ nnpack_root = None
    /\ buildopts = <<>>
    /\ buildopts0 = <<>>
    /\ parent_configure = <<>>

BindingIdle ==
    /\ install_r_ext = FALSE
    /\ installed = {}
    /\ shared_lib_ext = "so"
    /\ fake_module_ok = TRUE
    /\ py_sanity = TRUE
    /\ r_sanity = TRUE
    /\ calls = <<>>

---------------------------------------------------------------------------
(* SpecExtract: extract_step on every build directory of up to MaxChildren *)
(* children                                                                *)

InitExtract ==
    /\ pc = "extract"
    /\ err = None
    /\ mxnet_src_dir = None
    /\ InitExtractInputs
    /\ todo = {}
    /\ builddir0 = builddir
    /\ thirdparty0 = thirdparty
    /\ ConfigureIdle
    /\ BindingIdle

NextExtract == ExtractBegin \/ ExtractLoop

SpecExtract == InitExtract /\ [][NextExtract]_vars

---------------------------------------------------------------------------
(* Properties of extract_step *)

\* the names of SourceNames that carry the main-library marker 'mxnet-'
MainLibraryNames == {"mxnet-1.9.1", "apache-mxnet-1.9"}

\* the name under 3rdparty each dependency of SourceNames is to get: the
\* trailing '-<version>' removed, 'oneDNN' replaced by 'mkldnn'
SubmoduleName ==
    [n \in SourceNames \ MainLibraryNames |->
        CASE n = "oneDNN-2.6" -> "mkldnn"
          [] n = "mkldnn-2.6" -> "mkldnn"
          [] n = "ps-lite-a1b2" -> "ps-lite"
          [] n = "ps-lite-34fa" -> "ps-lite"
          [] n = "dlpack" -> "dlpack"]

MainDirs0 == DOMAIN builddir0 \cap MainLibraryNames

Deps0 == DOMAIN builddir0 \ MainLibraryNames

\* C1: with exactly one main-library directory and N dependency directories,
\* a finished extract_step leaves exactly N directories holding dependencies
\* under 3rdparty, each dependency under its submodule name, and no dependency
\* directory in the build directory.
C1_AssemblyMovesEveryDependency ==
    (pc = "extract_done" /\ Cardinality(MainDirs0) = 1) =>
        /\ DOMAIN builddir = MainDirs0
        /\ Cardinality({k \in DOMAIN thirdparty.kids :
                            thirdparty.kids[k].origin \in Deps0})
             = Cardinality(Deps0)
        /\ \A d \in Deps0 :
             /\ SubmoduleName[d] \in DOMAIN thirdparty.kids
             /\ thirdparty.kids[SubmoduleName[d]].origin = d

\* C2: extract_step fails with the discovery error whenever zero or several
\* children carry the marker, with no directory renamed, removed or moved; the
\* only matching child becomes mxnet_src_dir.
C2_DiscoveryFailsUntouched ==
    pc # "extract" =>
        /\ Cardinality(MainDirs0) # 1 =>
             /\ pc = "extract_failed"
             /\ err = FindError
             /\ builddir = builddir0
             /\ thirdparty = thirdparty0
             /\ mxnet_src_dir = None
        /\ Cardinality(MainDirs0) = 1 => mxnet_src_dir \in MainDirs0

\* two marked children and a dependency: the step has failed
C2_Witness ==
    /\ pc = "extract_failed"
    /\ err = FindError
    /\ Cardinality(MainDirs0) = 2
    /\ Deps0 # {}

\* the dependency directories under 3rdparty, each with its place: a child's
\* name, or "" for 3rdparty itself
MovedDeps(tp) ==
    {<<k, tp.kids[k].origin>> :
        k \in {x \in DOMAIN tp.kids : tp.kids[x].origin \in SourceNames}}
      \cup (IF tp.exists /\ tp.origin \in SourceNames
            THEN {<<"", tp.origin>>} ELSE {})

\* C9: no pass of the loop removes or overwrites a dependency directory an
\* earlier pass has moved under 3rdparty.
C9_MovedDependencyKept ==
    [][MovedDeps(thirdparty) \subseteq MovedDeps(thirdparty')]_vars

---------------------------------------------------------------------------
(* SpecConfigure: configure_step on every toolchain and environment below *)

\* what self.toolchain.definition().get('BLAS', None) may be: None for a
\* toolchain that defines no BLAS, else the list of BLAS module names
BlasDefinitions ==
    {NoneDef} \cup
    {ListDef(<<name>>) : name \in {None, "imkl", "ACML", "ATLAS", "OpenBLAS",
                                   "FlexiBLAS", "BLIS", "LibSci"}}

ImklVersions == {"11.3.3.210", "16.0.4", "17", "17.0.1", "18.0", "2.0", "2017.1.132"}

EnvValues ==
    [CC : {None, "gcc"}, CXX : {None, "g++"}, CFLAGS : {None, "-O2"},
     LDFLAGS : {None, "-L/lib"}, MKLROOT : {None, "/opt/imkl/mkl"}]

InitConfigure ==
    /\ pc = "configure"
    /\ err = None
    /\ mxnet_src_dir = "mxnet-1.9.1"
    /\ ExtractIdle
    /\ BindingIdle
    /\ toolchain_def \in BlasDefinitions
    /\ imkl_version \in (IF toolchain_def = ListDef(<<"imkl">>) THEN ImklVersions ELSE {None})
    /\ environ \in EnvValues
    /\ nnpack_root \in {None, "/opt/NNPACK"}
    /\ buildopts \in {<<>>, <<"USE_OPENCV=0">>}
    /\ buildopts0 = buildopts
    /\ parent_configure = <<>>

NextConfigure == ConfigureStep

SpecConfigure == InitConfigure /\ [][NextConfigure]_vars

---------------------------------------------------------------------------
(* SpecBindings: extensions_step, then sanity_check_step, for every        *)
(* installation and every answer of the collaborators below                *)

InstallableFiles == {"lib/libmxnet.a", "lib/libmxnet.so", "lib/libmxnet.dylib"}

InitBindings ==
    /\ pc = "extensions"
    /\ err = None
    /\ mxnet_src_dir = "mxnet-1.9.1"
    /\ ExtractIdle
    /\ ConfigureIdle
    /\ install_r_ext \in BOOLEAN
    /\ installed \in SUBSET InstallableFiles
    /\ shared_lib_ext \in {"so", "dylib"}
    /\ fake_module_ok \in BOOLEAN
    /\ py_sanity \in BOOLEAN
    /\ r_sanity \in BOOLEAN
    /\ calls = <<>>

NextBindings == ExtensionsStep \/ SanityCheckStep

SpecBindings == InitBindings /\ [][NextBindings]_vars

---------------------------------------------------------------------------
(* Properties of configure_step *)

\* the backend identifier of the toolchain, None when it selects none
Backend == IF toolchain_def.is_none THEN None ELSE toolchain_def.items[1]

\* the options configure_step has added
Added == SubSeq(buildopts, Len(buildopts0) + 1, Len(buildopts))

IsUseBlas(opt) == Len(opt) >= 9 /\ SubSeq(opt, 1, 9) = "USE_BLAS="

\* C3: with no backend selected, configure_step fails with "No BLAS library
\* found in the toolchain" and the parent's configure step is never reached.
C3_MissingBackendIsConfigurationError ==
    (pc # "configure" /\ Backend = None) =>
        /\ pc = "configure_failed"
        /\ err = NoBlasError
        /\ parent_configure = <<>>

\* C4: with a backend identifier present, whatever its value, configure_step
\* completes and emits exactly one USE_BLAS option.
C4_PresentBackendCompletes ==
    (pc # "configure" /\ Backend # None) =>
        /\ pc = "configure_done"
        /\ Cardinality({i \in DOMAIN Added : IsUseBlas(Added[i])}) = 1

\* the backend table: identifier -> value of USE_BLAS
BackendTable ==
    [b \in {"imkl", "ACML", "ATLAS", "OpenBLAS", "FlexiBLAS"} |->
        CASE b = "imkl" -> "mkl"
          [] b = "ACML" -> "atlas"
          [] b = "ATLAS" -> "atlas"
          [] b = "OpenBLAS" -> "openblas"
          [] b = "FlexiBLAS" -> "flexiblas"]

\* the versions of ImklVersions that are 17 or later
Mkl2017Versions == {"17", "17.0.1", "18.0", "2017.1.132"}

Shown(var) == IF environ[var] = None THEN "None" ELSE environ[var]

ExpectedBackendOpts ==
    {"USE_BLAS=\"" \o BackendTable[Backend] \o "\""}
      \cup (IF Backend = "imkl"
            THEN {"MKLML_ROOT=\"" \o Shown("MKLROOT") \o "\""}
                   \cup (IF imkl_version \in Mkl2017Versions
                         THEN {"USE_MKL2017=1"} ELSE {})
            ELSE {})
      \cup (IF nnpack_root # None THEN {"USE_NNPACK=1"} ELSE {})

\* C5: for each backend of the table configure_step completes, keeps the
\* options it found, adds the four base variables and then exactly the
\* table's options: USE_BLAS, for imkl MKLML_ROOT and (from version 17 on)
\* USE_MKL2017=1, and USE_NNPACK=1 exactly when NNPACK is present; the
\* parent's configure step sees them all.
C5_BackendTable ==
    (pc # "configure" /\ Backend \in DOMAIN BackendTable) =>
        /\ pc = "configure_done"
        /\ Len(buildopts) >= Len(buildopts0) + 4
        /\ SubSeq(buildopts, 1, Len(buildopts0)) = buildopts0
        /\ SubSeq(Added, 1, 4) =
             <<"CC=\"" \o Shown("CC") \o "\"",
               "CXX=\"" \o Shown("CXX") \o "\"",
               "ADD_CFLAGS=\"" \o Shown("CFLAGS") \o "\"",
               "ADD_LDFLAGS=\"" \o Shown("LDFLAGS") \o "\"">>
        /\ {Added[i] : i \in 5..Len(Added)} = ExpectedBackendOpts
        /\ Len(Added) - 4 = Cardinality(ExpectedBackendOpts)
        /\ parent_configure = <<buildopts>>

\* imkl 18.0 with NNPACK: configured, with USE_MKL2017=1
C5_Witness ==
    /\ pc = "configure_done"
    /\ Backend = "imkl"
    /\ imkl_version = "18.0"
    /\ nnpack_root # None
    /\ \E i \in DOMAIN Added : Added[i] = "USE_MKL2017=1"
    /\ \E i \in DOMAIN Added : Added[i] = "USE_BLAS=\"mkl\""

---------------------------------------------------------------------------
(* Properties of extensions_step and sanity_check_step *)

ExtensionsCompleted == pc \in {"sanity", "sanity_done", "sanity_failed"}

SanityEnded == pc \in {"sanity_done", "sanity_failed"}

Called(c) == \E i \in DOMAIN calls : calls[i] = c

\* the position of the first call of c, 0 when there is none
FirstCall(c) ==
    IF Called(c) THEN CHOOSE i \in DOMAIN calls :
                        calls[i] = c /\ \A j \in 1..(i - 1) : calls[j] # c
    ELSE 0

InstallEvents ==
    {"py_ext.prerun", "py_ext.run", "py_ext.postrun", "write_file(NAMESPACE)",
     "r_ext.run", "run_cmd(Rscript mxnet.export)", "r_ext.postrun"}

IsInstallEvent(c) == c \in InstallEvents

TwoPassOrder ==
    <<"py_ext.prerun", "py_ext.run", "py_ext.postrun", "write_file(NAMESPACE)",
      "r_ext.run", "run_cmd(Rscript mxnet.export)", "r_ext.run", "r_ext.postrun">>

\* C6: with the R install enabled, extensions_step runs the Python binding's
\* prerun, run, postrun, then writes NAMESPACE, installs, lets R export the
\* package, installs again and calls postrun, in this order; a step cut short
\* by an exception has made a prefix of it.
C6_TwoPassInstallOrder ==
    (install_r_ext /\ pc # "extensions") =>
        LET made == SelectSeq(calls, IsInstallEvent) IN
        /\ Len(made) <= Len(TwoPassOrder)
        /\ made = SubSeq(TwoPassOrder, 1, Len(made))
        /\ ExtensionsCompleted => made = TwoPassOrder

C6_Witness ==
    /\ install_r_ext
    /\ pc = "sanity"
    /\ Called("run_cmd(Rscript mxnet.export)")

ArtifactsPresent ==
    /\ "lib/libmxnet.a" \in installed
    /\ shared_lib_ext = "so" => "lib/libmxnet.so" \in installed
    /\ shared_lib_ext = "dylib" => "lib/libmxnet.dylib" \in installed

\* C7: with the R install disabled, extensions_step writes no NAMESPACE and
\* never calls r_ext.run, the Python binding is still installed, and
\* sanity_check_step still runs the R binding's sanity check once the
\* artifacts, the fake module and the Python check are in order.
C7_DisabledRInstall ==
    (~install_r_ext /\ ExtensionsCompleted) =>
        /\ ~Called("write_file(NAMESPACE)")
        /\ ~Called("r_ext.run")
        /\ Called("py_ext.prerun") /\ Called("py_ext.run") /\ Called("py_ext.postrun")
        /\ (SanityEnded /\ ArtifactsPresent /\ fake_module_ok /\ py_sanity) =>
             Called("r_ext.sanity_check_step")

C7_Witness ==
    /\ ~install_r_ext
    /\ SanityEnded
    /\ Called("r_ext.sanity_check_step")
    /\ Called("py_ext.run")

\* C8: sanity_check_step fails whenever an artifact is absent or a binding's
\* check returns false; it completes only with both artifacts, the fake module
\* loaded and both checks true; the binding checks come after the artifact
\* check and the fake module load, and only when both succeeded.
C8_SanityFailsOrAllHold ==
    SanityEnded =>
        /\ (~ArtifactsPresent \/ ~py_sanity \/ ~r_sanity) => pc = "sanity_failed"
        /\ pc = "sanity_done" =>
             ArtifactsPresent /\ fake_module_ok /\ py_sanity /\ r_sanity
        /\ \A c \in {"py_ext.sanity_check_step", "r_ext.sanity_check_step"} :
             Called(c) =>
               /\ ArtifactsPresent /\ fake_module_ok
               /\ 0 < FirstCall("super.sanity_check_step")
               /\ FirstCall("super.sanity_check_step") < FirstCall("load_fake_module")
               /\ FirstCall("load_fake_module") < FirstCall(c)

\* everything in order but the R binding's check: the step has failed
C8_Witness ==
    /\ pc = "sanity_failed"
    /\ ArtifactsPresent /\ fake_module_ok /\ py_sanity /\ ~r_sanity
    /\ Called("r_ext.sanity_check_step")

\* C10: whenever load_fake_module succeeded, clean_up_fake_module has been
\* called by the end of sanity_check_step, failed binding checks included.
C10_FakeModuleCleanedUp ==
    (SanityEnded /\ Called("load_fake_module") /\ fake_module_ok) =>
        Called("clean_up_fake_module")

====
